---------------------------- MODULE Spec2Model ----------------------------
(***************************************************************************)
(* ContextOptimizer (scripts/utilities/optimize_context.py): the context   *)
(* store pruner.  The store is the sqlite file .context/context.db with    *)
(* the tables conversation_context and code_context; the optimizer backs   *)
(* it up, prunes both tables, cleans temporary files and vacuums.  The     *)
(* later sections model the repository's other scripts, each in a          *)
(* specification of its own: AdaptiveTestRunner.run_sequence and           *)
(* heal_tests, the hooks trailing_whitespace and end_of_file,              *)
(* summarize_logs, and the main of evaluate_auto_merge.py.                 *)
(***************************************************************************)
EXTENDS Integers, Sequences, FiniteSets, TLC

(***************************************************************************)
(* Bounds of the model.  The four settings of __init__ are scaled down     *)
(* from their defaults (10, 30 days, 500, 50) so that every limit is       *)
(* exceeded by a store of MaxRows rows.                                    *)
(***************************************************************************)
max_conversations == 1
max_context_age_days == 1
max_summary_length == 1
max_file_contexts == 1
\* rows in the store (both tables together) when the methods are called on it
MaxRows == 2
\* rows in the store (both tables together) when main's commands run on it
MaxRunRows == 1
\* resolution of the clock: ticks (microseconds in the source) per second
TicksPerSecond == 2
\* seconds per day, scaled down from 86400
SecondsPerDay == 1
\* ticks the clock may advance during a behaviour
MaxTick == 1
\* distinct complexity_score values
MaxScore == 2

\* Python's None, where a path or a dict is expected
None == <<>>

VARIABLES
    now,                  \* datetime.now(), in ticks
    db_exists,            \* self.context_db.exists()
    conversation_context, \* table: session_id -> [timestamp, context_summary]
    code_context,         \* table: file_path -> [last_modified, complexity_score]
    db_free,              \* freed pages of the store file, reclaimed by VACUUM
    backups,              \* self.backup_dir: file name -> content
    root_files,           \* the files under self.project_root, as relative paths
    pc,                   \* the statement of run_full_optimization to run next
    initial_sizes,        \* run_full_optimization's locals
    backup_path,
    results,
    final_sizes,
    removed_missing,      \* optimize_code_contexts' printed missing-file count
    call,                 \* a direct method call that has returned: the clock and
                          \* the tables at its entry, and the value it returned
    starts,               \* the clock at the start of the latest two direct calls
                          \* of run_full_optimization, the latest last
    argv,                 \* sys.argv of the latest process, None before the first
    exit_status,          \* the status the latest process exited with
    \* adaptive_test_runner.py
    groups,               \* run_sequence's argument
    group_index,          \* the position of its loop in groups, from 1
    subprocess_calls,     \* the subprocess.call()s made, with their exit codes
    runner_pc,            \* where the runner is: idle, in the loop, returned
    result,               \* the value run_sequence returned
    tests_dir,            \* the directory tree at self.tests_dir
    heal,                 \* how the latest heal_tests ended, None before it
    \* pre_commit_helpers.py
    file_contents,        \* the bytes of the file the hooks are given
    hook,                 \* the latest hook run and its retval, None before it
    \* ci_log_summary.py
    directory,            \* the log directory: file name -> lines
    summaries,            \* the latest summarize_logs call, None before it
    \* evaluate_auto_merge.py
    details,              \* what gh answered to the latest main, None before it
    github_output,        \* the key=value lines in $GITHUB_OUTPUT
    returncode            \* the value the latest main returned

optimizer == <<now, db_exists, conversation_context, code_context, db_free, backups,
               root_files, pc, initial_sizes, backup_path, results, final_sizes,
               removed_missing, call, starts, argv, exit_status>>

runner == <<groups, group_index, subprocess_calls, runner_pc, result, tests_dir,
            heal>>

hooks == <<file_contents, hook>>

logs == <<directory, summaries>>

auto_merge == <<details, github_output, returncode>>

other_scripts == <<runner, hooks, logs, auto_merge>>

vars == <<optimizer, other_scripts>>

store == <<conversation_context, code_context, db_free>>
locals == <<initial_sizes, backup_path, results, final_sizes>>
history == <<starts, argv, exit_status>>

----------------------------------------------------------------------------
(* Time and its text forms *)

TicksPerDay == SecondsPerDay * TicksPerSecond

\* timedelta(days=self.max_context_age_days)
timedelta_days(days) == days * TicksPerDay

\* the clock when a behaviour starts: late enough for the cutoff to be a date
NowStart == timedelta_days(max_context_age_days) + 1

\* datetime.isoformat(): the seconds, and the fraction only when it is not 0
isoformat(t) ==
    IF t % TicksPerSecond = 0
    THEN <<t \div TicksPerSecond>>
    ELSE <<t \div TicksPerSecond, t % TicksPerSecond>>

\* strftime("%Y%m%d_%H%M%S"): the clock cut to whole seconds
strftime(t) == t \div TicksPerSecond

\* sqlite's comparison of two TEXT values (memcmp, the shorter first on a tie)
RECURSIVE TextLess(_, _)
TextLess(a, b) ==
    IF b = <<>> THEN FALSE
    ELSE IF a = <<>> THEN TRUE
    ELSE IF a[1] # b[1] THEN a[1] < b[1]
    ELSE TextLess(Tail(a), Tail(b))

\* cutoff_date = (datetime.now() - timedelta(days=...)).isoformat()
cutoff_date == isoformat(now - timedelta_days(max_context_age_days))

----------------------------------------------------------------------------
(* Summaries *)

\* the marker appended to a truncated summary: "... (truncated)"
Marker == <<".", ".", ".", " ", "(", "t", "r", "u", "n", "c", "a", "t", "e", "d", ")">>

\* a truncation that forgets the slice: summary + "... (truncated)"
truncated_unsliced(summary) == summary \o Marker

\* a truncation that slices from the wrong end: summary[-max_summary_length:]
truncated_tail(summary) ==
    SubSeq(summary, Len(summary) - max_summary_length + 1, Len(summary)) \o Marker

\* summary[: self.max_summary_length] + "... (truncated)"
truncated(summary) == SubSeq(summary, 1, max_summary_length) \o Marker

\* the truncation loop's test: summary and len(summary) > self.max_summary_length
needs_truncation(summary) == summary # <<>> /\ Len(summary) > max_summary_length

Text(n) == [i \in 1..n |-> "a"]

\* summaries a store may hold: at the cap, over it, cut by an earlier run, and
\* longer than a cut one
Summaries ==
    {Text(max_summary_length), Text(max_summary_length + 1),
     SubSeq(Text(max_summary_length + 1), 1, max_summary_length) \o Marker,
     Text(max_summary_length + Len(Marker) + 1)}


----------------------------------------------------------------------------
(* Paths *)

\* Path(project_root), "." by default
project_root == <<".">>

\* Path.__truediv__: an absolute right operand replaces the left one
JoinPath(root, path) == IF Head(path) = "/" THEN path ELSE root \o path

\* the file_path values a code_context row may hold, in ascending text order
FilePathOrder ==
    << <<"/", "opt", "lib.py">>, <<"src", "a.py">>, <<"src", "b.py">>,
       <<"src", "gone.py">>, <<"src", "missing.py">> >>

FilePaths == {FilePathOrder[i] : i \in DOMAIN FilePathOrder}

PathRank(path) == CHOOSE i \in DOMAIN FilePathOrder : FilePathOrder[i] = path

\* the files on disk that the rows' paths may resolve to
Disk == { <<"/", "opt", "lib.py">>, <<".", "src", "a.py">>, <<".", "src", "b.py">> }

\* an existence check that forgets the project root: Path(file_path).exists()
path_exists_cwd(file_path) == file_path \in Disk

\* (self.project_root / file_path).exists()
path_exists(file_path) == JoinPath(project_root, file_path) \in Disk

\* the files under the project root: each a path of names, a name written as
\* the pieces the glob patterns tell apart
ProjectFiles ==
    { << <<"temp_", "x", ".log">> >>, << <<"unrelated", ".txt">> >>,
      << <<"logs">>, <<"temp_", "y", ".log">> >> }

\* clean_temp_files' patterns
patterns ==
    << <<"ai_context_", "*", ".json">>, <<"session_handoff_", "*", ".json">>,
       <<"temp_", "*", ".log">>, <<".ai_session_", "*">>,
       <<".ai_changes_", "*", ".log">> >>

\* fnmatch of one name against one pattern
RECURSIVE fnmatch(_, _)
fnmatch(name, pattern) ==
    IF pattern = <<>> THEN name = <<>>
    ELSE IF Head(pattern) = "*"
         THEN fnmatch(name, Tail(pattern))
              \/ (name # <<>> /\ fnmatch(Tail(name), pattern))
         ELSE name # <<>> /\ Head(name) = Head(pattern)
              /\ fnmatch(Tail(name), Tail(pattern))

\* a scan that descends into the subdirectories: self.project_root.rglob(pattern)
rglob(files, pattern) == {f \in files : fnmatch(f[Len(f)], pattern)}

\* self.project_root.glob(pattern): the entries directly in the root whose
\* name matches
glob(files, pattern) == {f \in files : Len(f) = 1 /\ fnmatch(f[1], pattern)}

\* the entries the loop over the patterns visits
glob_matches(files) == UNION {glob(files, patterns[i]) : i \in DOMAIN patterns}

----------------------------------------------------------------------------
(* The store *)

\* instants around the first cutoff: before it, at it, and after it
RowInstants ==
    (NowStart - timedelta_days(max_context_age_days) - 1)
        .. (NowStart - timedelta_days(max_context_age_days) + MaxTick)

Stamps == {isoformat(t) : t \in RowInstants}

ConversationRows == [timestamp : Stamps, context_summary : Summaries]

CodeRows == [last_modified : Stamps, complexity_score : 1..MaxScore]

EmptyTable == [k \in {} |-> None]

\* the tables of n rows with keys in Keys
Tables(Keys, Rows, n) ==
    UNION {[K -> Rows] : K \in {S \in SUBSET Keys : Cardinality(S) = n}}

Restrict(table, keys) == [k \in keys |-> table[k]]

Count(table) == Cardinality(DOMAIN table)

\* an age DELETE that takes the row at the cutoff too: WHERE <column> <= ?
delete_older_inclusive(table, column, cutoff) ==
    [k \in {x \in DOMAIN table :
                table[x][column] = None \/ TextLess(cutoff, table[x][column])}
        |-> table[k]]

\* DELETE FROM <table> WHERE <column> < ? (a comparison with NULL is not true:
\* a row whose <column> is NULL stays)
delete_older(table, column, cutoff) ==
    Restrict(table, {k \in DOMAIN table :
                        table[k][column] = None
                        \/ ~TextLess(table[k][column], cutoff)})

\* the subquery with a limit one too high
select_most_recent_off_by_one(table, limit) ==
    {K \in SUBSET DOMAIN table :
        /\ Cardinality(K) =
              IF Cardinality(DOMAIN table) < limit + 1
              THEN Cardinality(DOMAIN table) ELSE limit + 1
        /\ \A k \in K, d \in DOMAIN table \ K :
               ~TextLess(table[k].timestamp, table[d].timestamp)}

\* the subquery ordered the wrong way: ORDER BY timestamp ASC
select_least_recent(table, limit) ==
    {K \in SUBSET DOMAIN table :
        /\ Cardinality(K) =
              IF Cardinality(DOMAIN table) < limit
              THEN Cardinality(DOMAIN table) ELSE limit
        /\ \A k \in K, d \in DOMAIN table \ K :
               ~TextLess(table[d].timestamp, table[k].timestamp)}

\* a count limit that drops the <limit> oldest rows instead of keeping the
\* <limit> newest: WHERE session_id IN (... ORDER BY timestamp ASC LIMIT ?)
select_all_but_oldest(table, limit) ==
    {K \in SUBSET DOMAIN table :
        /\ Cardinality(K) =
              IF Cardinality(DOMAIN table) < limit
              THEN 0 ELSE Cardinality(DOMAIN table) - limit
        /\ \A k \in K, d \in DOMAIN table \ K :
               ~TextLess(table[k].timestamp, table[d].timestamp)}

\* SELECT session_id FROM conversation_context ORDER BY timestamp DESC LIMIT ?
\* (every result the ordering allows: rows of equal timestamp come in any order)
select_most_recent(table, limit) ==
    {K \in SUBSET DOMAIN table :
        /\ Cardinality(K) = IF Count(table) < limit THEN Count(table) ELSE limit
        /\ \A k \in K, d \in DOMAIN table \ K :
               ~TextLess(table[k].timestamp, table[d].timestamp)}

\* the subquery with a limit one too high
select_most_complex_off_by_one(table, limit) ==
    {K \in SUBSET DOMAIN table :
        /\ Cardinality(K) =
              IF Cardinality(DOMAIN table) < limit + 1
              THEN Cardinality(DOMAIN table) ELSE limit + 1
        /\ \A k \in K, d \in DOMAIN table \ K :
               table[k].complexity_score >= table[d].complexity_score}

\* SELECT file_path FROM code_context ORDER BY complexity_score DESC LIMIT ?
select_most_complex(table, limit) ==
    {K \in SUBSET DOMAIN table :
        /\ Cardinality(K) = IF Count(table) < limit THEN Count(table) ELSE limit
        /\ \A k \in K, d \in DOMAIN table \ K :
               table[k].complexity_score >= table[d].complexity_score}

\* a truncation that also stamps the row: SET context_summary = ?, timestamp = ?
truncate_summaries_stamped(table) ==
    [s \in DOMAIN table |->
        IF needs_truncation(table[s].context_summary)
        THEN [timestamp |-> isoformat(now),
              context_summary |-> truncated(table[s].context_summary)]
        ELSE table[s]]

\* the truncation loop over the remaining conversations
truncate_summaries(table) ==
    [s \in DOMAIN table |->
        IF needs_truncation(table[s].context_summary)
        THEN [table[s] EXCEPT !.context_summary = truncated(@)]
        ELSE table[s]]

\* the rows whose file no longer exists
missing_files(table) == {p \in DOMAIN table : ~path_exists(p)}

\* MIN(timestamp) and MAX(timestamp) of the conversations
min_timestamp(table) ==
    CHOOSE t \in {table[s].timestamp : s \in DOMAIN table} :
        \A s \in DOMAIN table : ~TextLess(table[s].timestamp, t)

max_timestamp(table) ==
    CHOOSE t \in {table[s].timestamp : s \in DOMAIN table} :
        \A s \in DOMAIN table : ~TextLess(t, table[s].timestamp)

\* the size of the store file: the pages its rows use and the freed ones
db_size_bytes == Count(conversation_context) + Count(code_context) + db_free

EmptyDict == [k \in {} |-> None]

----------------------------------------------------------------------------
(* ContextOptimizer's methods *)

\* analyze_context_size's return value: {} without a store, else the counts,
\* the file size and, when there is a conversation, the oldest and newest
analyze_context_size ==
    IF ~db_exists THEN EmptyDict
    ELSE LET sizes == [conversations |-> Count(conversation_context),
                       code_contexts |-> Count(code_context),
                       db_size_bytes |-> db_size_bytes]
         IN  IF Count(conversation_context) = 0 THEN sizes
             ELSE sizes @@ [oldest_conversation |-> min_timestamp(conversation_context),
                            newest_conversation |-> max_timestamp(conversation_context)]

\* what shutil.copy2 (after mkdir) can do: copy the file, raise before it
\* writes, or raise after it has opened and cut the destination
CopyOutcomes == {"copied", "raised", "partial"}

\* the content of the store file
snapshot ==
    [complete |-> TRUE, conversation_context |-> conversation_context,
     code_context |-> code_context]

\* what a copy that raised midway leaves at the destination
Partial == [complete |-> FALSE]

\* backup_path = self.backup_dir / f"context_backup_{timestamp}.db"
backup_name == <<"context_backup_", strftime(now), ".db">>

\* backup_context's return value
backup_return(outcome) ==
    IF db_exists /\ outcome = "copied" THEN backup_name ELSE None

\* backup_context's effect on the backup directory
backup_context(outcome) ==
    backups' =
        IF ~db_exists \/ outcome = "raised" THEN backups
        ELSE IF outcome = "copied" THEN (backup_name :> snapshot) @@ backups
        ELSE (backup_name :> Partial) @@ backups

\* the table optimize_conversations commits; keep is the result of the
\* ORDER BY timestamp DESC LIMIT subquery
pruned_conversations(keep) ==
    truncate_summaries(
        Restrict(delete_older(conversation_context, "timestamp", cutoff_date), keep))

\* optimize_conversations' effect on the store
optimize_conversations(keep) ==
    IF ~db_exists
    THEN UNCHANGED store
    ELSE /\ keep \in select_most_recent(
                 delete_older(conversation_context, "timestamp", cutoff_date),
                 max_conversations)
         /\ conversation_context' = pruned_conversations(keep)
         /\ db_free' = db_free + Count(conversation_context) - Count(conversation_context')
         /\ UNCHANGED code_context

\* optimize_conversations' return value: removed = initial_count - final_count
conversations_removed(keep) ==
    IF ~db_exists THEN 0
    ELSE Count(conversation_context) - Count(pruned_conversations(keep))

\* the code contexts left by the missing-file loop and the age DELETE
existing_recent_contexts ==
    delete_older(
        Restrict(code_context, DOMAIN code_context \ missing_files(code_context)),
        "last_modified", cutoff_date)

\* the table optimize_code_contexts commits; keep is the result of the ORDER BY
\* complexity_score DESC LIMIT subquery, run only when
\* current_count > self.max_file_contexts
pruned_code_contexts(keep) ==
    IF Count(existing_recent_contexts) > max_file_contexts
    THEN Restrict(existing_recent_contexts, keep)
    ELSE existing_recent_contexts

\* self.project_root / file_path raises TypeError for a file_path that is NULL
file_check_raises == None \in DOMAIN code_context

\* optimize_code_contexts' effect on the store and its printed missing count;
\* when the file check raises, the except branch is taken before the commit
optimize_code_contexts(keep) ==
    IF ~db_exists \/ file_check_raises
    THEN UNCHANGED <<store, removed_missing>>
    ELSE /\ keep \in select_most_complex(existing_recent_contexts, max_file_contexts)
         /\ removed_missing' = Cardinality(missing_files(code_context))
         /\ code_context' = pruned_code_contexts(keep)
         /\ db_free' = db_free + Count(code_context) - Count(code_context')
         /\ UNCHANGED conversation_context

\* optimize_code_contexts' return value
code_contexts_removed(keep) ==
    IF ~db_exists \/ file_check_raises THEN 0
    ELSE Count(code_context) - Count(pruned_code_contexts(keep))

\* vacuum_database: VACUUM gives the freed pages back
vacuum_database ==
    /\ db_free' = IF db_exists THEN 0 ELSE db_free
    /\ UNCHANGED <<conversation_context, code_context>>

\* clean_temp_files' effect; failing are the matching entries whose unlink()
\* raises
clean_temp_files(failing) ==
    /\ failing \subseteq glob_matches(root_files)
    /\ root_files' = root_files \ (glob_matches(root_files) \ failing)

\* a count that takes every attempt for a deletion: cleaned += 1 before the
\* unlink
cleaned_attempted(failing) == Cardinality(glob_matches(root_files))

\* clean_temp_files' return value
cleaned(failing) == Cardinality(glob_matches(root_files) \ failing)

----------------------------------------------------------------------------
(* run_full_optimization, statement by statement, and main's commands *)

\* sys.argv[0]
script == "optimize_context.py"

\* the commands main knows
Commands == {"analyze", "optimize", "backup", "clean"}

\* words a caller may pass that are not commands
OtherCommands == {"prune"}

\* main with the command "optimize": optimizer.run_full_optimization(),
\* whose first statement is initial_sizes = self.analyze_context_size()
run_analyze_before ==
    /\ pc = "idle"
    /\ argv' = <<script, "optimize">>
    /\ initial_sizes' = analyze_context_size
    /\ pc' = "backup"
    /\ UNCHANGED <<now, db_exists, store, backups, root_files, backup_path,
                   results, final_sizes, removed_missing, call, starts,
                   exit_status>>
    /\ UNCHANGED other_scripts

\* a run that gives up when it has no backup: if backup_path is None: return {}
run_backup_checked ==
    /\ pc = "backup"
    /\ \E outcome \in CopyOutcomes :
          /\ backup_context(outcome)
          /\ backup_path' = backup_return(outcome)
          /\ pc' = IF backup_return(outcome) = None THEN "idle" ELSE "conversations"
    /\ results' = EmptyDict
    /\ UNCHANGED <<now, db_exists, store, root_files, initial_sizes, final_sizes,
                   removed_missing, call, history>>
    /\ UNCHANGED other_scripts

\* backup_path = self.backup_context(); results = {}
run_backup ==
    /\ pc = "backup"
    /\ \E outcome \in CopyOutcomes :
          /\ backup_context(outcome)
          /\ backup_path' = backup_return(outcome)
    /\ results' = EmptyDict
    /\ pc' = "conversations"
    /\ UNCHANGED <<now, db_exists, store, root_files, initial_sizes, final_sizes,
                   removed_missing, call, history>>
    /\ UNCHANGED other_scripts

\* results["conversations_removed"] = self.optimize_conversations()
run_optimize_conversations ==
    /\ pc = "conversations"
    /\ \E keep \in SUBSET DOMAIN conversation_context :
          /\ optimize_conversations(keep)
          /\ results' = ("conversations_removed" :> conversations_removed(keep))
                        @@ results
    /\ pc' = "code_contexts"
    /\ UNCHANGED <<now, db_exists, backups, root_files, initial_sizes,
                   backup_path, final_sizes, removed_missing, call, history>>
    /\ UNCHANGED other_scripts

\* a run that goes from the code contexts straight to the vacuum
run_optimize_code_contexts_then_vacuum ==
    /\ pc = "code_contexts"
    /\ \E keep \in SUBSET DOMAIN code_context :
          /\ optimize_code_contexts(keep)
          /\ results' = ("code_contexts_removed" :> code_contexts_removed(keep))
                        @@ results
    /\ pc' = "vacuum"
    /\ UNCHANGED <<now, db_exists, backups, root_files, initial_sizes,
                   backup_path, final_sizes, call, history>>
    /\ UNCHANGED other_scripts

\* results["code_contexts_removed"] = self.optimize_code_contexts()
run_optimize_code_contexts ==
    /\ pc = "code_contexts"
    /\ \E keep \in SUBSET DOMAIN code_context :
          /\ optimize_code_contexts(keep)
          /\ results' = ("code_contexts_removed" :> code_contexts_removed(keep))
                        @@ results
    /\ pc' = "temp_files"
    /\ UNCHANGED <<now, db_exists, backups, root_files, initial_sizes,
                   backup_path, final_sizes, call, history>>
    /\ UNCHANGED other_scripts

\* results["temp_files_removed"] = self.clean_temp_files()
run_clean_temp_files ==
    /\ pc = "temp_files"
    /\ \E failing \in SUBSET root_files :
          /\ clean_temp_files(failing)
          /\ results' = ("temp_files_removed" :> cleaned(failing)) @@ results
    /\ pc' = "vacuum"
    /\ UNCHANGED <<now, db_exists, store, backups, initial_sizes, backup_path,
                   final_sizes, removed_missing, call, history>>
    /\ UNCHANGED other_scripts

\* self.vacuum_database()
run_vacuum ==
    /\ pc = "vacuum"
    /\ vacuum_database
    /\ pc' = "analyze_after"
    /\ UNCHANGED <<now, db_exists, backups, root_files, locals, removed_missing,
                   call, history>>
    /\ UNCHANGED other_scripts

\* final_sizes = self.analyze_context_size(), and the size reduction when both
\* analyses gave a result
run_analyze_after ==
    /\ pc = "analyze_after"
    /\ final_sizes' = analyze_context_size
    /\ results' =
          IF initial_sizes # EmptyDict /\ analyze_context_size # EmptyDict
          THEN ("size_reduction_mb" :>
                   initial_sizes.db_size_bytes - analyze_context_size.db_size_bytes)
               @@ results
          ELSE results
    /\ pc' = "done"
    /\ UNCHANGED <<now, db_exists, store, backups, root_files, initial_sizes,
                   backup_path, removed_missing, call, history>>
    /\ UNCHANGED other_scripts

\* return results: the call is over, its locals are gone, main returns and
\* the process exits
run_return ==
    /\ pc = "done"
    /\ pc' = "idle"
    /\ initial_sizes' = EmptyDict
    /\ backup_path' = None
    /\ results' = EmptyDict
    /\ final_sizes' = EmptyDict
    /\ exit_status' = 0
    /\ UNCHANGED <<now, db_exists, store, backups, root_files, removed_missing,
                   call, starts, argv>>
    /\ UNCHANGED other_scripts

----------------------------------------------------------------------------
(* The steps of a run in which a method's try block raises (sqlite3.connect *)
(* or a statement fails: the file is locked, damaged or not writable).  The *)
(* method prints the error and returns its default; its connection is       *)
(* dropped without a commit, so the store is as it was.                     *)

\* initial_sizes = self.analyze_context_size(), which returns {} from its
\* except branch
run_analyze_before_except ==
    /\ pc = "idle"
    /\ db_exists
    /\ argv' = <<script, "optimize">>
    /\ initial_sizes' = EmptyDict
    /\ pc' = "backup"
    /\ UNCHANGED <<now, db_exists, store, backups, root_files, backup_path,
                   results, final_sizes, removed_missing, call, starts,
                   exit_status>>
    /\ UNCHANGED other_scripts

\* results["conversations_removed"] = self.optimize_conversations(), which
\* returns 0 from its except branch
run_optimize_conversations_except ==
    /\ pc = "conversations"
    /\ db_exists
    /\ results' = ("conversations_removed" :> 0) @@ results
    /\ pc' = "code_contexts"
    /\ UNCHANGED <<now, db_exists, store, backups, root_files, initial_sizes,
                   backup_path, final_sizes, removed_missing, call, history>>
    /\ UNCHANGED other_scripts

\* results["code_contexts_removed"] = self.optimize_code_contexts(), which
\* returns 0 from its except branch
run_optimize_code_contexts_except ==
    /\ pc = "code_contexts"
    /\ db_exists
    /\ results' = ("code_contexts_removed" :> 0) @@ results
    /\ pc' = "temp_files"
    /\ UNCHANGED <<now, db_exists, store, backups, root_files, initial_sizes,
                   backup_path, final_sizes, removed_missing, call, history>>
    /\ UNCHANGED other_scripts

\* self.vacuum_database(), which returns False from its except branch
run_vacuum_except ==
    /\ pc = "vacuum"
    /\ db_exists
    /\ pc' = "analyze_after"
    /\ UNCHANGED <<now, db_exists, store, backups, root_files, locals,
                   removed_missing, call, history>>
    /\ UNCHANGED other_scripts

\* final_sizes = self.analyze_context_size(), which returns {} from its
\* except branch: no size reduction is recorded
run_analyze_after_except ==
    /\ pc = "analyze_after"
    /\ db_exists
    /\ final_sizes' = EmptyDict
    /\ pc' = "done"
    /\ UNCHANGED <<now, db_exists, store, backups, root_files, initial_sizes,
                   backup_path, results, removed_missing, call, history>>
    /\ UNCHANGED other_scripts

----------------------------------------------------------------------------
(* main's other commands *)

\* main without a command: the usage text, and return
main_usage ==
    /\ pc = "idle"
    /\ argv' = <<script>>
    /\ exit_status' = 0
    /\ UNCHANGED <<now, db_exists, store, backups, root_files, pc, locals,
                   removed_missing, call, starts>>
    /\ UNCHANGED other_scripts

\* main with the command "analyze": the sizes are printed, nothing is written
main_analyze ==
    /\ pc = "idle"
    /\ argv' = <<script, "analyze">>
    /\ exit_status' = 0
    /\ UNCHANGED <<now, db_exists, store, backups, root_files, pc, locals,
                   removed_missing, call, starts>>
    /\ UNCHANGED other_scripts

\* main with the command "backup": optimizer.backup_context()
main_backup ==
    /\ pc = "idle"
    /\ argv' = <<script, "backup">>
    /\ \E outcome \in CopyOutcomes : backup_context(outcome)
    /\ exit_status' = 0
    /\ UNCHANGED <<now, db_exists, store, root_files, pc, locals, removed_missing,
                   call, starts>>
    /\ UNCHANGED other_scripts

\* main with the command "clean": optimizer.clean_temp_files()
main_clean ==
    /\ pc = "idle"
    /\ argv' = <<script, "clean">>
    /\ \E failing \in SUBSET root_files : clean_temp_files(failing)
    /\ exit_status' = 0
    /\ UNCHANGED <<now, db_exists, store, backups, pc, locals, removed_missing,
                   call, starts>>
    /\ UNCHANGED other_scripts

\* main with any other command: "Unknown command" is printed, main returns
\* and the interpreter exits as after every return of main
main_unknown ==
    /\ pc = "idle"
    /\ \E command \in OtherCommands : argv' = <<script, command>>
    /\ exit_status' = 0
    /\ UNCHANGED <<now, db_exists, store, backups, root_files, pc, locals,
                   removed_missing, call, starts>>
    /\ UNCHANGED other_scripts

\* the clock advances
Tick ==
    /\ now < NowStart + MaxTick
    /\ now' = now + 1
    /\ UNCHANGED <<db_exists, store, backups, root_files, pc, locals,
                   removed_missing, call, history>>
    /\ UNCHANGED other_scripts

----------------------------------------------------------------------------
(* The methods called directly, on any store *)

\* the tables as a call finds them
entry == [now |-> now, conversation_context |-> conversation_context,
          code_context |-> code_context]

\* optimizer.optimize_conversations()
call_optimize_conversations ==
    /\ pc = "idle"
    /\ \E keep \in SUBSET DOMAIN conversation_context :
          /\ optimize_conversations(keep)
          /\ call' = [method |-> "optimize_conversations", entry |-> entry,
                      value |-> conversations_removed(keep)]
    /\ pc' = "returned"
    /\ UNCHANGED <<now, db_exists, backups, root_files, locals, removed_missing,
                   history>>
    /\ UNCHANGED other_scripts

\* optimizer.optimize_code_contexts()
call_optimize_code_contexts ==
    /\ pc = "idle"
    /\ \E keep \in SUBSET DOMAIN code_context :
          /\ optimize_code_contexts(keep)
          /\ call' = [method |-> "optimize_code_contexts", entry |-> entry,
                      value |-> code_contexts_removed(keep)]
    /\ pc' = "returned"
    /\ UNCHANGED <<now, db_exists, backups, root_files, locals, history>>
    /\ UNCHANGED other_scripts

\* optimizer.run_full_optimization(), by a caller that notes the clock: the
\* first statement of the call
call_run_full_optimization ==
    /\ pc = "idle"
    /\ starts' = IF starts = <<>> THEN <<now>> ELSE <<starts[Len(starts)], now>>
    /\ initial_sizes' = analyze_context_size
    /\ pc' = "backup"
    /\ UNCHANGED <<now, db_exists, store, backups, root_files, backup_path,
                   results, final_sizes, removed_missing, call, argv,
                   exit_status>>
    /\ UNCHANGED other_scripts

\* the caller goes on
call_return ==
    /\ pc = "returned"
    /\ pc' = "idle"
    /\ call' = None
    /\ UNCHANGED <<now, db_exists, store, backups, root_files, locals,
                   removed_missing, history>>
    /\ UNCHANGED other_scripts

----------------------------------------------------------------------------

\* the session ids: a store of i conversations holds the first i of them
SessionOrder == <<"s1", "s2", "s3">>

\* the state after __init__, apart from the store
InitOptimizer ==
    /\ now = NowStart
    /\ db_free = 0
    /\ backups = EmptyDict
    /\ root_files = ProjectFiles
    /\ pc = "idle"
    /\ initial_sizes = EmptyDict
    /\ backup_path = None
    /\ results = EmptyDict
    /\ final_sizes = EmptyDict
    /\ removed_missing = 0
    /\ call = None
    /\ starts = <<>>
    /\ argv = None
    /\ exit_status = 0

\* there is no store, or one of n rows at most, the conversations from
\* Conversations and the code contexts from Contexts under a key of Keys
InitStoreOf(n, Conversations, Keys, Contexts) ==
    /\ db_exists \in BOOLEAN
    /\ \E i \in 0..n : \E j \in 0..(n - i) :
          /\ conversation_context \in
                IF db_exists
                THEN [{SessionOrder[k] : k \in 1..i} -> Conversations]
                ELSE {EmptyTable}
          /\ code_context \in
                IF db_exists THEN Tables(Keys, Contexts, j) ELSE {EmptyTable}

\* there is no store, or one with the rows its writers put there, n at most
InitStore(n) == InitStoreOf(n, ConversationRows, FilePaths, CodeRows)

\* a directory, where a file would have its text
Dir == "<dir>"

\* the runner before any call, in a project with an empty tests directory
RunnerIdle ==
    /\ groups = <<>>
    /\ group_index = 0
    /\ subprocess_calls = <<>>
    /\ runner_pc = "idle"
    /\ result = 0
    /\ tests_dir = (<<>> :> Dir)
    /\ heal = None

\* no hook has run, on an empty file
HooksIdle == file_contents = <<>> /\ hook = None

\* no summary has been made, of an empty log directory
LogsIdle == directory = EmptyDict /\ summaries = None

\* no pull request has been evaluated
AutoMergeIdle == details = None /\ github_output = <<>> /\ returncode = 0

\* the other scripts of the repository are not run
OtherScriptsIdle == RunnerIdle /\ HooksIdle /\ LogsIdle /\ AutoMergeIdle

Init == InitOptimizer /\ InitStore(MaxRunRows) /\ OtherScriptsIdle

Next ==
    \/ run_analyze_before
    \/ run_backup
    \/ run_optimize_conversations
    \/ run_optimize_code_contexts
    \/ run_clean_temp_files
    \/ run_vacuum
    \/ run_analyze_after
    \/ run_return
    \/ main_backup
    \/ main_clean
    \/ Tick

\* the commands of main that write: optimize, backup and clean on a store
Spec == Init /\ [][Next]_vars

MainNext ==
    \/ Next
    \/ main_usage
    \/ main_analyze
    \/ main_unknown

\* every way to start the script
MainSpec == Init /\ [][MainNext]_vars

MethodInit == InitOptimizer /\ InitStore(MaxRows) /\ OtherScriptsIdle

MethodNext ==
    \/ call_optimize_conversations
    \/ call_optimize_code_contexts
    \/ call_return
    \/ Tick

\* the pruning methods called directly
MethodSpec == MethodInit /\ [][MethodNext]_vars

\* rows in which a writer has left a column NULL
NullableConversationRows ==
    [timestamp : Stamps \cup {None}, context_summary : Summaries \cup {None}]

NullableCodeRows ==
    [last_modified : Stamps \cup {None}, complexity_score : 1..MaxScore]

NullInit ==
    /\ InitOptimizer
    /\ InitStoreOf(MaxRows, NullableConversationRows, FilePaths \cup {None},
                   NullableCodeRows)
    /\ OtherScriptsIdle

\* the pruning methods called directly on a store with NULLs
NullSpec == NullInit /\ [][MethodNext]_vars

RepeatNext ==
    \/ call_run_full_optimization
    \/ run_backup
    \/ run_optimize_conversations
    \/ run_optimize_code_contexts
    \/ run_clean_temp_files
    \/ run_vacuum
    \/ run_analyze_after
    \/ run_return
    \/ Tick

\* the statements after the first of a run, whichever way each ends
RunContinues ==
    \/ run_backup
    \/ run_optimize_conversations
    \/ run_optimize_conversations_except
    \/ run_optimize_code_contexts
    \/ run_optimize_code_contexts_except
    \/ run_clean_temp_files
    \/ run_vacuum
    \/ run_vacuum_except
    \/ run_analyze_after
    \/ run_analyze_after_except
    \/ run_return

FaultNext ==
    \/ run_analyze_before
    \/ run_analyze_before_except
    \/ RunContinues

\* the command "optimize", again and again at one instant, on a store that may
\* fail under it
FaultSpec == Init /\ [][FaultNext]_vars

\* a run, once begun, goes on: the interpreter executes the next statement
FairFaultSpec == FaultSpec /\ WF_vars(RunContinues)

\* run_full_optimization called again and again, on any store
RepeatSpec == MethodInit /\ [][RepeatNext]_vars

----------------------------------------------------------------------------
(* The claims *)

\* the instant an isoformat text denotes
Instant(s) == s[1] * TicksPerSecond + (IF Len(s) > 1 THEN s[2] ELSE 0)

\* the age horizon of a call, as an instant
Horizon(t) == t - max_context_age_days * SecondsPerDay * TicksPerSecond

ReturnedFrom(method) == pc = "returned" /\ call.method = method /\ db_exists

\* the conversations of a table that are not older than the horizon of time t
Fresh(table, t) ==
    {s \in DOMAIN table : Instant(table[s].timestamp) >= Horizon(t)}

\* what file_path names under the project root: itself when it is absolute
Resolved(file_path) ==
    IF file_path[1] = "/" THEN file_path ELSE <<".">> \o file_path

\* the code contexts of the call's entry that the file check and the age
\* DELETE leave for the count limit
Candidates ==
    {p \in DOMAIN call.entry.code_context :
        /\ Resolved(p) \in Disk
        /\ Instant(call.entry.code_context[p].last_modified)
              >= Horizon(call.entry.now)}

\* a backup that can be a copy of the store as the run found it
IsPreRunSnapshot(b) ==
    /\ b.complete
    /\ Count(b.conversation_context) = initial_sizes.conversations
    /\ Count(b.code_context) = initial_sizes.code_contexts
    /\ pc = "conversations" => b.conversation_context = conversation_context
    /\ pc \in {"conversations", "code_contexts"} => b.code_context = code_context

\* C1: whenever a step of run_full_optimization changes the store (the two
\* pruners, the vacuum), the backup directory holds a complete snapshot of the
\* store as the run found it, whatever backup_context's outcome was.
BackupBeforeMutation ==
    [][(pc \in {"conversations", "code_contexts", "vacuum"} /\ store' # store)
          => \E name \in DOMAIN backups : IsPreRunSnapshot(backups[name])]_vars

\* C2: a successful backup_context call returns a path that no earlier
\* successful call has returned, i.e. at which no complete snapshot lies yet,
\* however little time lies between the calls.
BackupPathsDistinct ==
    [][(pc = "backup" /\ backup_path' # None)
          => ~(backup_path' \in DOMAIN backups /\ backups[backup_path'].complete)]_vars

\* C3: after optimize_conversations on an existing store, at most
\* max_conversations conversations remain.
ConversationCountBounded ==
    ReturnedFrom("optimize_conversations")
        => Count(conversation_context) <= max_conversations

\* C3's case: more fresh conversations than the limit, cut down to the limit
ConversationCountWitness ==
    /\ ReturnedFrom("optimize_conversations")
    /\ Cardinality(Fresh(call.entry.conversation_context, call.entry.now))
          > max_conversations
    /\ Count(conversation_context) = max_conversations

\* C4: after optimize_code_contexts on an existing store, at most
\* max_file_contexts code contexts remain, equal scores included.
CodeContextCountBounded ==
    ReturnedFrom("optimize_code_contexts")
        => Count(code_context) <= max_file_contexts

\* C4's case: more rows than the limit, two of them of equal score, cut down
CodeContextCountWitness ==
    /\ ReturnedFrom("optimize_code_contexts")
    /\ Count(code_context) = max_file_contexts
    /\ call.value > 0
    /\ removed_missing = 0
    /\ \E p \in DOMAIN code_context :
          \E q \in DOMAIN call.entry.code_context \ DOMAIN code_context :
             /\ call.entry.code_context[q].complexity_score
                   = code_context[p].complexity_score
             /\ Instant(call.entry.code_context[q].last_modified)
                   >= Horizon(call.entry.now)

\* C5: after a pruner, no remaining conversation (by timestamp) and no remaining
\* code context (by last_modified) is older than the call's now minus
\* max_context_age_days; a row exactly at the horizon is not removed for its age
\* (it stays when the count limit and the file check leave it).
NoExpiredRowRemains ==
    /\ ReturnedFrom("optimize_conversations") =>
          /\ \A s \in DOMAIN conversation_context :
                Instant(conversation_context[s].timestamp) >= Horizon(call.entry.now)
          /\ Cardinality(Fresh(call.entry.conversation_context, call.entry.now))
                <= max_conversations
             => \A s \in DOMAIN call.entry.conversation_context :
                   Instant(call.entry.conversation_context[s].timestamp)
                      = Horizon(call.entry.now)
                   => s \in DOMAIN conversation_context
    /\ ReturnedFrom("optimize_code_contexts") =>
          /\ \A p \in DOMAIN code_context :
                Instant(code_context[p].last_modified) >= Horizon(call.entry.now)
          /\ Cardinality(Candidates) <= max_file_contexts
             => \A p \in Candidates :
                   Instant(call.entry.code_context[p].last_modified)
                      = Horizon(call.entry.now)
                   => p \in DOMAIN code_context

\* C5's case: an older row is gone and a row exactly at the horizon remains
NoExpiredRowWitness ==
    /\ ReturnedFrom("optimize_conversations")
    /\ \E s \in DOMAIN call.entry.conversation_context :
          Instant(call.entry.conversation_context[s].timestamp)
             < Horizon(call.entry.now)
    /\ \E s \in DOMAIN conversation_context :
          Instant(conversation_context[s].timestamp) = Horizon(call.entry.now)

\* C6: after optimize_conversations the survivors are fresh conversations, as
\* many of them as the limit allows, and no removed fresh conversation is more
\* recent than a survivor.
SurvivorsAreMostRecent ==
    ReturnedFrom("optimize_conversations") =>
        LET before == call.entry.conversation_context
            fresh == Fresh(before, call.entry.now)
            left == DOMAIN conversation_context
        IN  /\ left \subseteq fresh
            /\ Cardinality(left) =
                  IF Cardinality(fresh) <= max_conversations
                  THEN Cardinality(fresh) ELSE max_conversations
            /\ \A s \in left, d \in fresh \ left :
                  Instant(before[s].timestamp) >= Instant(before[d].timestamp)
            /\ \A s \in left :
                  conversation_context[s].timestamp = before[s].timestamp

\* C6's case: a fresh conversation removed in favour of a more recent one
SurvivorsWitness ==
    /\ ReturnedFrom("optimize_conversations")
    /\ \E s \in DOMAIN conversation_context :
          \E d \in Fresh(call.entry.conversation_context, call.entry.now)
                      \ DOMAIN conversation_context :
             Instant(call.entry.conversation_context[d].timestamp)
                < Instant(conversation_context[s].timestamp)

\* C7: after optimize_code_contexts every record whose file_path names no file
\* on disk is gone, so every remaining file_path resolves, and the missing-file
\* count printed is the number of records removed for that reason.
MissingFilesRemoved ==
    ReturnedFrom("optimize_code_contexts") =>
        /\ \A p \in DOMAIN code_context : Resolved(p) \in Disk
        /\ removed_missing =
              Cardinality({p \in DOMAIN call.entry.code_context :
                              Resolved(p) \notin Disk})

\* C7's case: exactly one record points at a missing file; it is removed,
\* another record remains, and the count is 1
MissingFilesWitness ==
    /\ ReturnedFrom("optimize_code_contexts")
    /\ Cardinality({p \in DOMAIN call.entry.code_context :
                       Resolved(p) \notin Disk}) = 1
    /\ removed_missing = 1
    /\ code_context # EmptyTable

\* C8: when more than max_file_contexts records reach the count limit, the
\* survivors are the max_file_contexts records of highest complexity_score, and
\* among records of equal score those that come first by file_path.
TiesBrokenByFilePath ==
    (ReturnedFrom("optimize_code_contexts")
        /\ Cardinality(Candidates) > max_file_contexts) =>
        /\ DOMAIN code_context \subseteq Candidates
        /\ Count(code_context) = max_file_contexts
        /\ \A p \in DOMAIN code_context, q \in Candidates \ DOMAIN code_context :
              \/ call.entry.code_context[p].complexity_score
                    > call.entry.code_context[q].complexity_score
              \/ /\ call.entry.code_context[p].complexity_score
                       = call.entry.code_context[q].complexity_score
                 /\ PathRank(p) < PathRank(q)

\* C9: after optimize_conversations every remaining summary is at most
\* max_summary_length plus the marker long: a longer summary has become its
\* first max_summary_length characters and the marker, a shorter one is as
\* it was.
SummariesTruncated ==
    ReturnedFrom("optimize_conversations") =>
        \A s \in DOMAIN conversation_context :
            LET old == call.entry.conversation_context[s].context_summary
                new == conversation_context[s].context_summary
            IN  /\ Len(new) <= max_summary_length + Len(Marker)
                /\ Len(old) > max_summary_length =>
                      /\ Len(new) = max_summary_length + Len(Marker)
                      /\ \A i \in 1..max_summary_length : new[i] = old[i]
                      /\ \A i \in 1..Len(Marker) :
                            new[max_summary_length + i] = Marker[i]
                /\ Len(old) <= max_summary_length => new = old

\* C9's case: a summary longer than the cap and the marker together was cut
SummariesTruncatedWitness ==
    /\ ReturnedFrom("optimize_conversations")
    /\ \E s \in DOMAIN conversation_context :
          /\ Len(call.entry.conversation_context[s].context_summary)
                > max_summary_length + Len(Marker)
          /\ Len(conversation_context[s].context_summary)
                = max_summary_length + Len(Marker)

\* a summary as a truncation leaves it: max_summary_length characters and
\* the marker
IsTruncated(summary) ==
    /\ Len(summary) = max_summary_length + Len(Marker)
    /\ \A i \in 1..Len(Marker) : summary[max_summary_length + i] = Marker[i]

\* C10: optimize_conversations leaves a summary that an earlier run has
\* truncated exactly as it was.
TruncationIdempotent ==
    ReturnedFrom("optimize_conversations") =>
        \A s \in DOMAIN conversation_context :
            IsTruncated(call.entry.conversation_context[s].context_summary)
                => conversation_context[s].context_summary
                      = call.entry.conversation_context[s].context_summary

\* C10's case: the call met a truncated summary and kept the row
TruncationIdempotentWitness ==
    /\ ReturnedFrom("optimize_conversations")
    /\ \E s \in DOMAIN conversation_context :
          IsTruncated(call.entry.conversation_context[s].context_summary)

NoStoreNoEffect ==
    [][(~db_exists /\ pc' # pc)
          => /\ root_files' = root_files
             /\ backups' = backups
             /\ store' = store
             /\ db_exists' = db_exists
             /\ \A k \in DOMAIN results' : results'[k] = 0]_vars

\* C13: a process started with one of the four defined commands exits with
\* status 0, and a process started with any other command exits with a
\* non-zero status.
ExitStatusByCommand ==
    (pc = "idle" /\ Len(argv) > 1) =>
        IF argv[2] \in Commands THEN exit_status = 0 ELSE exit_status # 0

\* the statements of run_full_optimization, by what pc is before each
StepOrder ==
    <<"idle", "backup", "conversations", "code_contexts", "temp_files", "vacuum",
      "analyze_after", "done">>

\* C14: a run takes its steps one after the other in the order analyze,
\* backup, optimize_conversations, optimize_code_contexts, clean_temp_files,
\* vacuum_database, analyze, each once before it returns; the tables, the
\* backup directory and the project root change only in the step of their
\* method, and the vacuum starts only when both pruners and the temp cleaner
\* have put their counts in the results.
StepsInOrder ==
    [][/\ pc' # pc =>
             \E i \in 1..Len(StepOrder) :
                 pc = StepOrder[i] /\ pc' = StepOrder[(i % Len(StepOrder)) + 1]
       /\ conversation_context' # conversation_context => pc = "conversations"
       /\ code_context' # code_context => pc = "code_contexts"
       /\ backups' # backups => pc = "backup"
       /\ root_files' # root_files => pc = "temp_files"
       /\ (pc = "vacuum" \/ db_free' < db_free) =>
             /\ pc = "vacuum"
             /\ DOMAIN results = {"conversations_removed", "code_contexts_removed",
                                  "temp_files_removed"}
             /\ results' = results]_vars

\* C14's case: a run at its return, every method of which has left its mark
StepsInOrderWitness ==
    /\ pc = "done"
    /\ initial_sizes # EmptyDict
    /\ backup_path # None
    /\ results.conversations_removed > 0
    /\ results.temp_files_removed > 0
    /\ "size_reduction_mb" \in DOMAIN results
    /\ results.size_reduction_mb > 0

\* the five shapes of a temporary file's name: how it begins and how it ends
TempShapes ==
    { <<"ai_context_", ".json">>, <<"session_handoff_", ".json">>,
      <<"temp_", ".log">>, <<".ai_session_", "">>, <<".ai_changes_", ".log">> }

IsTempName(name) ==
    \E shape \in TempShapes :
        /\ name[1] = shape[1]
        /\ shape[2] # "" => (Len(name) > 1 /\ name[Len(name)] = shape[2])

\* C15: whenever the files under the project root change, the files gone lay
\* directly in the root and had a name of one of the five shapes; no file is
\* added, and the store and the backup directory are as they were.
CleanerDeletesOnlyTempFiles ==
    [][root_files' # root_files =>
          /\ root_files' \subseteq root_files
          /\ \A f \in root_files \ root_files' : Len(f) = 1 /\ IsTempName(f[1])
          /\ db_exists' = db_exists
          /\ store' = store
          /\ backups' = backups]_vars

\* C15's case: the command clean has removed temp_x.log and left
\* unrelated.txt and the file of a matching name in a subdirectory
CleanerWitness ==
    /\ pc = "idle"
    /\ argv = <<script, "clean">>
    /\ root_files = { << <<"unrelated", ".txt">> >>,
                      << <<"logs">>, <<"temp_", "y", ".log">> >> }

\* C16: when a run on an existing store is at its return, the backup directory
\* holds the snapshot this run took (at the path backup_context returned to
\* it), complete, with as many conversations and code contexts as the first
\* analysis of the run counted.
RunLeavesPreRunSnapshot ==
    (pc = "done" /\ db_exists) =>
        /\ backup_path # None
        /\ backup_path \in DOMAIN backups
        /\ backups[backup_path].complete
        /\ Count(backups[backup_path].conversation_context)
              = initial_sizes.conversations
        /\ Count(backups[backup_path].code_context) = initial_sizes.code_contexts

\* C17: no step of any command adds a session_id to the conversations or a
\* file_path to the code contexts or creates the store; a code context that
\* remains is unchanged, and a conversation that remains keeps its timestamp
\* and either its summary or, for a summary over the cap, its first
\* max_summary_length characters followed by the marker.
NoRecordCreated ==
    [][/\ db_exists' = db_exists
       /\ DOMAIN conversation_context' \subseteq DOMAIN conversation_context
       /\ DOMAIN code_context' \subseteq DOMAIN code_context
       /\ \A p \in DOMAIN code_context' : code_context'[p] = code_context[p]
       /\ \A s \in DOMAIN conversation_context' :
             LET old == conversation_context[s]
                 new == conversation_context'[s]
             IN  /\ DOMAIN new = DOMAIN old
                 /\ new.timestamp = old.timestamp
                 /\ \/ new.context_summary = old.context_summary
                    \/ /\ Len(old.context_summary) > max_summary_length
                       /\ IsTruncated(new.context_summary)
                       /\ \A i \in 1..max_summary_length :
                             new.context_summary[i] = old.context_summary[i]]_vars

\* C17's case: a conversation has survived a run with its summary cut, as
\* the snapshot taken before shows
NoRecordCreatedWitness ==
    \E name \in DOMAIN backups :
        /\ backups[name].complete
        /\ \E s \in DOMAIN conversation_context
                     \cap DOMAIN backups[name].conversation_context :
              /\ backups[name].conversation_context[s].context_summary
                    # conversation_context[s].context_summary
              /\ backups[name].conversation_context[s].timestamp
                    = conversation_context[s].timestamp

\* C18: a complete snapshot in the backup directory (one that a backup_context
\* call has returned) is still there after every step of every command, with
\* the content it had.
SnapshotsImmutable ==
    [][\A name \in DOMAIN backups :
          backups[name].complete =>
              /\ name \in DOMAIN backups'
              /\ backups'[name] = backups[name]]_vars

\* the conversations in which no column is NULL (a session_id never is in
\* the stores of the model)
WholeConversations ==
    {s \in DOMAIN conversation_context :
        /\ conversation_context[s].timestamp # None
        /\ conversation_context[s].context_summary # None}

\* the code contexts in which no column is NULL (a complexity_score never is
\* in the stores of the model)
WholeCodeContexts ==
    {p \in DOMAIN code_context :
        p # None /\ code_context[p].last_modified # None}

\* C19: a pruner called on a store in which some rows have a NULL column still
\* prunes the other rows and commits: afterwards at most the count limit of
\* them remain, each within the age horizon, each conversation's summary
\* within the cap and the marker, each code context's file_path naming a
\* file on disk.
NullRowsSkipped ==
    /\ ReturnedFrom("optimize_conversations") =>
          /\ Cardinality(WholeConversations) <= max_conversations
          /\ \A s \in WholeConversations :
                /\ Instant(conversation_context[s].timestamp)
                      >= Horizon(call.entry.now)
                /\ Len(conversation_context[s].context_summary)
                      <= max_summary_length + Len(Marker)
    /\ ReturnedFrom("optimize_code_contexts") =>
          /\ Cardinality(WholeCodeContexts) <= max_file_contexts
          /\ \A p \in WholeCodeContexts :
                /\ Resolved(p) \in Disk
                /\ Instant(code_context[p].last_modified)
                      >= Horizon(call.entry.now)

\* C20: a run that has begun reaches its return statement with the three
\* counts in its results, whichever of its steps fail.
RunCompletes ==
    (pc = "backup") ~>
        (/\ pc = "done"
         /\ {"conversations_removed", "code_contexts_removed", "temp_files_removed"}
               \subseteq DOMAIN results)

\* C20's case: a run at its return after both analyses, the backup copy, the
\* conversation pruner (a conversation older than the horizon is still there,
\* the clock not having moved) and the deletion of the temp file have failed
RunCompletesWitness ==
    /\ pc = "done"
    /\ db_exists
    /\ initial_sizes = EmptyDict
    /\ final_sizes = EmptyDict
    /\ backup_path = None
    /\ now = NowStart
    /\ \E s \in DOMAIN conversation_context :
          Instant(conversation_context[s].timestamp) < Horizon(now)
    /\ results.conversations_removed = 0
    /\ results.temp_files_removed = 0
    /\ << <<"temp_", "x", ".log">> >> \in root_files

----------------------------------------------------------------------------
(* clean_temp_files called directly, on any project root *)

\* optimizer.clean_temp_files(): of the entries the scan lists, the unlink()
\* of those in failing raises, those in gone because another process has
\* removed them since the listing, the others because it is not permitted
call_clean_temp_files ==
    /\ pc = "idle"
    /\ \E failing \in SUBSET glob_matches(root_files) :
          \E gone \in SUBSET failing :
             /\ root_files' =
                   (root_files \ gone) \ (glob_matches(root_files) \ failing)
             /\ call' = [method |-> "clean_temp_files",
                         entry |-> [root_files |-> root_files],
                         could_not_remove |-> failing,
                         value |-> cleaned(failing)]
    /\ pc' = "returned"
    /\ UNCHANGED <<now, db_exists, store, backups, locals, removed_missing,
                   history>>
    /\ UNCHANGED other_scripts

\* a project without a store, holding any of five files: three temporary
\* files in the root, one other file and a temporary file of a subdirectory
CleanInit ==
    /\ now = NowStart
    /\ db_exists = FALSE
    /\ conversation_context = EmptyTable
    /\ code_context = EmptyTable
    /\ db_free = 0
    /\ backups = EmptyDict
    /\ root_files \in
          SUBSET (ProjectFiles \cup { << <<".ai_session_", "1">> >>,
                                     << <<"ai_context_", "7", ".json">> >> })
    /\ pc = "idle"
    /\ initial_sizes = EmptyDict
    /\ backup_path = None
    /\ results = EmptyDict
    /\ final_sizes = EmptyDict
    /\ removed_missing = 0
    /\ call = None
    /\ starts = <<>>
    /\ argv = None
    /\ exit_status = 0
    /\ OtherScriptsIdle

CleanNext ==
    \/ call_clean_temp_files
    \/ call_return

\* the cleaner called again and again
CleanSpec == CleanInit /\ [][CleanNext]_vars

\* C21: when clean_temp_files has returned, every file it listed whose unlink
\* did not raise is gone, the files that do not match are all still there,
\* and the value returned is the number of files the call deleted: the files
\* gone since its entry, less those whose unlink raised.
CleanerSkipsFailures ==
    (pc = "returned" /\ call.method = "clean_temp_files") =>
        LET before   == call.entry.root_files
            matching == {f \in before : Len(f) = 1 /\ IsTempName(f[1])}
        IN  /\ (matching \ call.could_not_remove) \cap root_files = {}
            /\ before \ matching \subseteq root_files
            /\ call.value =
                  Cardinality((before \ root_files) \ call.could_not_remove)

\* C21's case: of three matching files one could not be removed and is still
\* there, one had gone before its unlink, and the third was deleted and is
\* the only one counted
CleanerSkipsFailuresWitness ==
    /\ pc = "returned"
    /\ call.method = "clean_temp_files"
    /\ Cardinality(call.could_not_remove) = 2
    /\ Cardinality(call.could_not_remove \cap root_files) = 1
    /\ Cardinality(call.entry.root_files \ root_files) = 2
    /\ call.value = 1

----------------------------------------------------------------------------
(* analyze_context_size called directly *)

\* dict.get(key, default), as main and run_full_optimization read the sizes
get(dict, key, default) == IF key \in DOMAIN dict THEN dict[key] ELSE default

\* an analysis that connects without the exists() test: sqlite3.connect
\* creates an empty store file, whose missing tables send the first SELECT to
\* the except branch
call_analyze_context_size_connecting ==
    /\ pc = "idle"
    /\ db_exists' = TRUE
    /\ call' = [method |-> "analyze_context_size", entry |-> entry,
                value |-> IF db_exists THEN analyze_context_size ELSE EmptyDict]
    /\ pc' = "returned"
    /\ UNCHANGED <<now, store, backups, root_files, locals, removed_missing,
                   history>>
    /\ UNCHANGED other_scripts

\* optimizer.analyze_context_size(): the exists() test, then a connection on
\* which only SELECTs are executed, and the file's stat()
call_analyze_context_size ==
    /\ pc = "idle"
    /\ call' = [method |-> "analyze_context_size", entry |-> entry,
                value |-> analyze_context_size]
    /\ pc' = "returned"
    /\ UNCHANGED <<now, db_exists, store, backups, root_files, locals,
                   removed_missing, history>>
    /\ UNCHANGED other_scripts

\* optimizer.analyze_context_size() on a store that fails under it: the
\* except branch returns {}
call_analyze_context_size_except ==
    /\ pc = "idle"
    /\ db_exists
    /\ call' = [method |-> "analyze_context_size", entry |-> entry,
                value |-> EmptyDict]
    /\ pc' = "returned"
    /\ UNCHANGED <<now, db_exists, store, backups, root_files, locals,
                   removed_missing, history>>
    /\ UNCHANGED other_scripts

AnalyzeNext ==
    \/ call_analyze_context_size
    \/ call_analyze_context_size_except
    \/ main_backup
    \/ call_return
    \/ Tick

\* the analysis called again and again, on any store, between backups
AnalyzeSpec == MethodInit /\ [][AnalyzeNext]_vars

\* C22: a call of analyze_context_size leaves the store file (its existence,
\* its rows and its size), the backups and the files of the project root as
\* they were; without a store it returns the empty result, in which every
\* count reads as 0, and there is still no store.
AnalyzeHasNoEffect ==
    [][(pc = "idle" /\ pc' = "returned") =>
          /\ call'.method = "analyze_context_size"
          /\ db_exists' = db_exists
          /\ store' = store
          /\ backups' = backups
          /\ root_files' = root_files
          /\ ~db_exists =>
                /\ call'.value = EmptyDict
                /\ get(call'.value, "conversations", 0) = 0
                /\ get(call'.value, "code_contexts", 0) = 0
                /\ get(call'.value, "db_size_bytes", 0) = 0]_vars

\* C22's case: the analysis has returned the empty result on a project with
\* no store, where a backup command has run before
AnalyzeWitness ==
    /\ pc = "returned"
    /\ call.method = "analyze_context_size"
    /\ ~db_exists
    /\ call.value = EmptyDict
    /\ argv = <<script, "backup">>

----------------------------------------------------------------------------
(* The pruning methods called directly on a store that may fail under them *)

\* a connection in autocommit mode (isolation_level=None): the age DELETE has
\* persisted when a later statement raises
call_optimize_conversations_except_autocommit ==
    /\ pc = "idle"
    /\ db_exists
    /\ conversation_context' =
          delete_older(conversation_context, "timestamp", cutoff_date)
    /\ db_free' = db_free + Count(conversation_context) - Count(conversation_context')
    /\ call' = [method |-> "optimize_conversations", entry |-> entry,
                raised |-> "before_commit", value |-> 0]
    /\ pc' = "returned"
    /\ UNCHANGED <<now, db_exists, code_context, backups, root_files, locals,
                   removed_missing, history>>
    /\ UNCHANGED other_scripts

\* optimizer.optimize_conversations() when a statement up to conn.commit()
\* raises: the except branch returns 0, and the connection is dropped with
\* its transaction open, which rolls it back
call_optimize_conversations_except ==
    /\ pc = "idle"
    /\ db_exists
    /\ call' = [method |-> "optimize_conversations", entry |-> entry,
                raised |-> "before_commit", value |-> 0]
    /\ pc' = "returned"
    /\ UNCHANGED <<now, db_exists, store, backups, root_files, locals,
                   removed_missing, history>>
    /\ UNCHANGED other_scripts

\* optimizer.optimize_conversations() when a statement after conn.commit()
\* raises (the final SELECT COUNT(*), close or print, still inside the try):
\* the except branch returns 0
call_optimize_conversations_late_except ==
    /\ pc = "idle"
    /\ db_exists
    /\ \E keep \in SUBSET DOMAIN conversation_context :
          optimize_conversations(keep)
    /\ call' = [method |-> "optimize_conversations", entry |-> entry,
                raised |-> "after_commit", value |-> 0]
    /\ pc' = "returned"
    /\ UNCHANGED <<now, db_exists, backups, root_files, locals, removed_missing,
                   history>>
    /\ UNCHANGED other_scripts

\* optimizer.optimize_code_contexts() when a statement up to conn.commit()
\* raises
call_optimize_code_contexts_except ==
    /\ pc = "idle"
    /\ db_exists
    /\ call' = [method |-> "optimize_code_contexts", entry |-> entry,
                raised |-> "before_commit", value |-> 0]
    /\ pc' = "returned"
    /\ UNCHANGED <<now, db_exists, store, backups, root_files, locals,
                   removed_missing, history>>
    /\ UNCHANGED other_scripts

\* optimizer.optimize_code_contexts() when a statement after conn.commit()
\* raises, before the counts are printed
call_optimize_code_contexts_late_except ==
    /\ pc = "idle"
    /\ db_exists
    /\ ~file_check_raises
    /\ \E keep \in select_most_complex(existing_recent_contexts, max_file_contexts) :
          code_context' = pruned_code_contexts(keep)
    /\ db_free' = db_free + Count(code_context) - Count(code_context')
    /\ call' = [method |-> "optimize_code_contexts", entry |-> entry,
                raised |-> "after_commit", value |-> 0]
    /\ pc' = "returned"
    /\ UNCHANGED <<now, db_exists, conversation_context, backups, root_files,
                   locals, removed_missing, history>>
    /\ UNCHANGED other_scripts

PrunerFaultNext ==
    \/ call_optimize_conversations
    \/ call_optimize_conversations_except
    \/ call_optimize_conversations_late_except
    \/ call_optimize_code_contexts
    \/ call_optimize_code_contexts_except
    \/ call_optimize_code_contexts_late_except
    \/ call_return
    \/ Tick

\* the pruning methods called directly, each call ending in its return
\* statement or in its except branch
PrunerFaultSpec == MethodInit /\ [][PrunerFaultNext]_vars

PrunerAllOrNothing ==
    /\ (pc = "returned" /\ call.method = "optimize_conversations") =>
          /\ code_context = call.entry.code_context
          /\ ("raised" \in DOMAIN call /\ call.raised = "before_commit") =>
                /\ conversation_context = call.entry.conversation_context
                /\ call.value = 0
          /\ conversation_context # call.entry.conversation_context =>
                /\ Count(conversation_context) <= max_conversations
                /\ \A s \in DOMAIN conversation_context :
                      /\ Instant(conversation_context[s].timestamp)
                            >= Horizon(call.entry.now)
                      /\ Len(conversation_context[s].context_summary)
                            <= max_summary_length + Len(Marker)
    /\ (pc = "returned" /\ call.method = "optimize_code_contexts") =>
          /\ conversation_context = call.entry.conversation_context
          /\ ("raised" \in DOMAIN call /\ call.raised = "before_commit") =>
                /\ code_context = call.entry.code_context
                /\ call.value = 0
          /\ code_context # call.entry.code_context =>
                /\ Count(code_context) <= max_file_contexts
                /\ \A p \in DOMAIN code_context :
                      /\ Resolved(p) \in Disk
                      /\ Instant(code_context[p].last_modified)
                            >= Horizon(call.entry.now)

\* C28's case: optimize_conversations has raised before its commit on a store
\* of two conversations, one older than the horizon and one with a summary
\* over the cap, and both are still there as they were
PrunerAllOrNothingWitness ==
    /\ pc = "returned"
    /\ call.method = "optimize_conversations"
    /\ "raised" \in DOMAIN call
    /\ call.raised = "before_commit"
    /\ Count(conversation_context) = 2
    /\ \E s \in DOMAIN conversation_context :
          Instant(conversation_context[s].timestamp) < Horizon(call.entry.now)
    /\ \E s \in DOMAIN conversation_context :
          Len(conversation_context[s].context_summary)
             > max_summary_length + Len(Marker)

----------------------------------------------------------------------------
(* adaptive_test_runner.py: AdaptiveTestRunner.run_sequence *)

\* the longest --sequence tried
MaxGroups == 3

\* what pytest exits with: all passed, some failed, none collected
ExitCodes == {0, 1, 5}

\* run_sequence's mapping: the method and argument each group name stands for
mapping ==
    ("fast" :> <<"run_fast_tests">>) @@ ("smoke" :> <<"run_smoke_tests">>)
    @@ ("full" :> <<"run_full_tests">>)
    @@ ("integration" :> <<"run_integration_tests">>)
    @@ ("unit-core" :> <<"run_group_tests", "core">>)
    @@ ("core" :> <<"run_group_tests", "core">>)
    @@ ("unit-features" :> <<"run_group_tests", "features">>)
    @@ ("features" :> <<"run_group_tests", "features">>)
    @@ ("unit-utils" :> <<"run_group_tests", "utils">>)
    @@ ("utils" :> <<"run_group_tests", "utils">>)
    @@ ("api" :> <<"run_group_tests", "api">>)

\* the optimizer is not run: its state after __init__, without a store
OptimizerIdle ==
    /\ InitOptimizer
    /\ db_exists = FALSE
    /\ conversation_context = EmptyTable
    /\ code_context = EmptyTable

\* runner.run_sequence(groups): the call, up to its loop, with up to MaxGroups
\* names out of three that the mapping knows, two of them naming the same
\* tests, and one that it does not
call_run_sequence ==
    /\ runner_pc = "idle"
    /\ groups' \in UNION {[1..n -> {"smoke", "unit-core", "core", "bogus"}] :
                           n \in 0..MaxGroups}
    /\ group_index' = 1
    /\ subprocess_calls' = <<>>
    /\ runner_pc' = "loop"
    /\ UNCHANGED <<result, tests_dir, heal, hooks, logs, auto_merge, optimizer>>

\* a loop that does not look at the exit codes
run_sequence_action_unchecked ==
    /\ runner_pc = "loop"
    /\ group_index <= Len(groups)
    /\ groups[group_index] \in DOMAIN mapping
    /\ \E code \in ExitCodes :
          subprocess_calls' =
             Append(subprocess_calls,
                    [action |-> mapping[groups[group_index]], returncode |-> code])
    /\ group_index' = group_index + 1
    /\ UNCHANGED <<groups, runner_pc, result, tests_dir, heal, hooks, logs,
                   auto_merge, optimizer>>

\* one turn of the loop on a group the mapping knows: result = action(), the
\* method's one subprocess.call, and the return when it is not 0
run_sequence_action ==
    /\ runner_pc = "loop"
    /\ group_index <= Len(groups)
    /\ groups[group_index] \in DOMAIN mapping
    /\ \E code \in ExitCodes :
          /\ subprocess_calls' =
                Append(subprocess_calls,
                       [action |-> mapping[groups[group_index]],
                        returncode |-> code])
          /\ IF code # 0
             THEN /\ result' = code
                  /\ runner_pc' = "returned"
                  /\ UNCHANGED group_index
             ELSE /\ group_index' = group_index + 1
                  /\ UNCHANGED <<result, runner_pc>>
    /\ UNCHANGED <<groups, tests_dir, heal, hooks, logs, auto_merge, optimizer>>

\* one turn of the loop on a group the mapping does not know: return 1
run_sequence_unknown ==
    /\ runner_pc = "loop"
    /\ group_index <= Len(groups)
    /\ groups[group_index] \notin DOMAIN mapping
    /\ result' = 1
    /\ runner_pc' = "returned"
    /\ UNCHANGED <<groups, group_index, subprocess_calls, tests_dir, heal, hooks,
                   logs, auto_merge, optimizer>>

\* the loop is over: return 0
run_sequence_return ==
    /\ runner_pc = "loop"
    /\ group_index > Len(groups)
    /\ result' = 0
    /\ runner_pc' = "returned"
    /\ UNCHANGED <<groups, group_index, subprocess_calls, tests_dir, heal, hooks,
                   logs, auto_merge, optimizer>>

\* the caller of the runner goes on
runner_return ==
    /\ runner_pc = "returned"
    /\ runner_pc' = "idle"
    /\ UNCHANGED <<groups, group_index, subprocess_calls, result, tests_dir,
                   heal, hooks, logs, auto_merge, optimizer>>

\* none of the scripts has run yet
AllIdle == OptimizerIdle /\ OtherScriptsIdle

SequenceNext ==
    \/ call_run_sequence
    \/ run_sequence_action
    \/ run_sequence_unknown
    \/ run_sequence_return
    \/ runner_return

\* run_sequence called again and again, on any sequence of groups
SequenceSpec == AllIdle /\ [][SequenceNext]_vars

\* C24: when run_sequence has returned, the subprocess calls it made are
\* those of the first groups of its argument, in that order; every call but
\* the last exited with 0; if the last did not, its exit code is the value
\* returned; and the value is 0 exactly when there is one call for every
\* group and each exited with 0.
SequenceStopsAtFirstFailure ==
    runner_pc = "returned" =>
        LET n == Len(subprocess_calls)
        IN  /\ n <= Len(groups)
            /\ \A k \in 1..n :
                  /\ groups[k] \in DOMAIN mapping
                  /\ subprocess_calls[k].action = mapping[groups[k]]
                  /\ k < n => subprocess_calls[k].returncode = 0
            /\ (n > 0 /\ subprocess_calls[n].returncode # 0) =>
                  result = subprocess_calls[n].returncode
            /\ result = 0 <=>
                  /\ n = Len(groups)
                  /\ \A k \in 1..n : subprocess_calls[k].returncode = 0

\* C24's case: of three groups the first passed, the second exited with 5
\* and was the last run, and 5 was returned
SequenceWitness ==
    /\ runner_pc = "returned"
    /\ Len(groups) = 3
    /\ Len(subprocess_calls) = 2
    /\ subprocess_calls[1].returncode = 0
    /\ subprocess_calls[2].returncode = 5
    /\ result = 5

----------------------------------------------------------------------------
(* adaptive_test_runner.py: AdaptiveTestRunner.heal_tests *)

\* the most group directories a project holds before the healing
MaxExistingDirs == 2

\* heal_tests' test_dirs
test_dirs == <<"smoke", "integration", "core", "features", "utils", "api">>

TestDirs == {test_dirs[i] : i \in DOMAIN test_dirs}

\* the text heal_tests writes to an __init__.py and to the smoke test, and a
\* text somebody else wrote
InitText == "\"\"\"Test module.\"\"\"\n"

SmokeText == "\"\"\"Basic smoke tests.\"\"\"\n..."

OtherText == "# ours\n"

smoke_test == <<"smoke", "test_basic.py">>

\* the states of self.tests_dir a project can be in: no tests directory at
\* all, or one with some of the group directories ds, each with or without
\* its files fs, a file holding the text heal_tests writes or another
TestTrees ==
    {EmptyDict} \cup
    UNION {UNION {{(<<>> :> Dir) @@ [p \in {<<g>> : g \in ds} |-> Dir] @@ texts :
                      texts \in [fs -> {InitText, OtherText}]} :
                   fs \in SUBSET ({<<g, "__init__.py">> : g \in ds}
                                   \cup {p \in {smoke_test} : p[1] \in ds})} :
             ds \in {d \in SUBSET TestDirs : Cardinality(d) <= MaxExistingDirs}}

\* what heal_tests creates where there is nothing: the six directories, an
\* __init__.py in each and the smoke test
scaffolding ==
    [p \in {<<g>> : g \in TestDirs} |-> Dir]
    @@ [p \in {<<g, "__init__.py">> : g \in TestDirs} |-> InitText]
    @@ (smoke_test :> SmokeText)

\* runner.heal_tests(): Path.mkdir(exist_ok=True) of the first group raises
\* FileNotFoundError when self.tests_dir is not there, since parents is not
\* set; otherwise what is missing is created and 0 is returned
heal_tests ==
    /\ runner_pc = "idle"
    /\ IF <<>> \notin DOMAIN tests_dir
       THEN /\ heal' = [raised |-> "FileNotFoundError"]
            /\ UNCHANGED tests_dir
       ELSE /\ heal' = [returned |-> 0]
            /\ tests_dir' = tests_dir @@ scaffolding
    /\ UNCHANGED <<groups, group_index, subprocess_calls, runner_pc, result,
                   hooks, logs, auto_merge, optimizer>>

\* somebody removes a file or a directory with what it holds, the whole
\* tests directory included
remove_tests_path ==
    /\ runner_pc = "idle"
    /\ \E p \in DOMAIN tests_dir :
          tests_dir' =
             [q \in {q \in DOMAIN tests_dir :
                        Len(q) < Len(p) \/ SubSeq(q, 1, Len(p)) # p}
                 |-> tests_dir[q]]
    /\ UNCHANGED <<groups, group_index, subprocess_calls, runner_pc, result,
                   heal, hooks, logs, auto_merge, optimizer>>

HealInit ==
    /\ OptimizerIdle
    /\ HooksIdle /\ LogsIdle /\ AutoMergeIdle
    /\ groups = <<>>
    /\ group_index = 0
    /\ subprocess_calls = <<>>
    /\ runner_pc = "idle"
    /\ result = 0
    /\ tests_dir \in TestTrees
    /\ heal = None

HealNext ==
    \/ heal_tests
    \/ remove_tests_path

\* heal_tests called again and again, on a project that loses files
HealSpec == HealInit /\ [][HealNext]_vars

\* C25: every heal_tests call returns 0 and leaves the six group directories,
\* an __init__.py in each and the smoke test; what was there before the call
\* is as it was; and a call on a project that lacks none of these, as a
\* call leaves it, changes nothing.
HealRestoresStructure ==
    [][DOMAIN tests_dir \subseteq DOMAIN tests_dir' =>
          /\ heal' = [returned |-> 0]
          /\ \A g \in TestDirs :
                /\ <<g>> \in DOMAIN tests_dir'
                /\ tests_dir'[<<g>>] = Dir
                /\ <<g, "__init__.py">> \in DOMAIN tests_dir'
          /\ smoke_test \in DOMAIN tests_dir'
          /\ \A p \in DOMAIN tests_dir : tests_dir'[p] = tests_dir[p]
          /\ DOMAIN scaffolding \subseteq DOMAIN tests_dir =>
                tests_dir' = tests_dir]_vars

----------------------------------------------------------------------------
(* pre_commit_helpers.py: trailing_whitespace and end_of_file *)

\* the longest file, in bytes
MaxBytes == 4

\* bytes.endswith(suffix)
endswith(b, suffix) ==
    /\ Len(b) >= Len(suffix)
    /\ SubSeq(b, Len(b) - Len(suffix) + 1, Len(b)) = suffix

\* bytes.rstrip(chars)
RECURSIVE rstrip(_, _)
rstrip(b, chars) ==
    IF b # <<>> /\ b[Len(b)] \in chars
    THEN rstrip(SubSeq(b, 1, Len(b) - 1), chars)
    ELSE b

\* bytes.splitlines() from byte i on, line being the bytes read since the
\* last line end: \n, \r and \r\n each end a line, and what follows the last
\* line end is a line only if it is not empty
RECURSIVE splitlines_from(_, _, _)
splitlines_from(b, i, line) ==
    IF i > Len(b) THEN (IF line = <<>> THEN <<>> ELSE <<line>>)
    ELSE IF b[i] = "\r" /\ i < Len(b) /\ b[i + 1] = "\n"
         THEN <<line>> \o splitlines_from(b, i + 2, <<>>)
    ELSE IF b[i] \in {"\n", "\r"}
         THEN <<line>> \o splitlines_from(b, i + 1, <<>>)
    ELSE splitlines_from(b, i + 1, Append(line, b[i]))

\* sep.join(lines)
RECURSIVE join(_, _)
join(sep, lines) ==
    IF lines = <<>> THEN <<>>
    ELSE IF Len(lines) = 1 THEN lines[1]
    ELSE lines[1] \o sep \o join(sep, Tail(lines))

\* trailing_whitespace's fixed_contents
fixed_whitespace(original_contents) ==
    LET lines  == splitlines_from(original_contents, 1, <<>>)
        joined == join(<<"\n">>, [i \in DOMAIN lines |-> rstrip(lines[i], {" ", "\n", "\r"})])
    IN  IF joined # <<>> /\ ~endswith(joined, <<"\n">>)
        THEN joined \o <<"\n">>
        ELSE joined

\* an end_of_file that takes one newline off a file that ends with several
end_of_file_contents_one_less(original_contents) ==
    IF original_contents = <<>> THEN original_contents
    ELSE IF ~endswith(original_contents, <<"\n">>)
         THEN original_contents \o <<"\n">>
    ELSE IF endswith(original_contents, <<"\n", "\n">>)
         THEN SubSeq(original_contents, 1, Len(original_contents) - 1)
    ELSE original_contents

\* what end_of_file leaves in the file: an empty file as it is, a newline
\* appended to a file that ends without one, and the newlines at the end of a
\* file that ends with two or more replaced by one
end_of_file_contents(original_contents) ==
    IF original_contents = <<>> THEN original_contents
    ELSE IF ~endswith(original_contents, <<"\n">>)
         THEN original_contents \o <<"\n">>
    ELSE IF endswith(original_contents, <<"\n", "\n">>)
         THEN rstrip(original_contents, {"\n"}) \o <<"\n">>
    ELSE original_contents

\* trailing_whitespace([filename]): the file is written when the fixed
\* contents differ, and then retval is 1
trailing_whitespace ==
    /\ file_contents' = fixed_whitespace(file_contents)
    /\ hook' = [name |-> "trailing_whitespace",
                original_contents |-> file_contents,
                retval |-> IF file_contents # fixed_whitespace(file_contents)
                           THEN 1 ELSE 0]
    /\ UNCHANGED <<runner, logs, auto_merge, optimizer>>

\* end_of_file([filename]): retval is 1 when the file is written
end_of_file ==
    /\ file_contents' = end_of_file_contents(file_contents)
    /\ hook' = [name |-> "end_of_file",
                original_contents |-> file_contents,
                retval |-> IF file_contents # end_of_file_contents(file_contents)
                           THEN 1 ELSE 0]
    /\ UNCHANGED <<runner, logs, auto_merge, optimizer>>

HookInit ==
    /\ OptimizerIdle
    /\ RunnerIdle /\ LogsIdle /\ AutoMergeIdle
    /\ file_contents \in
          UNION {[1..n -> {"a", " ", "\n", "\r"}] : n \in 0..MaxBytes}
    /\ hook = None

HookNext ==
    \/ trailing_whitespace
    \/ end_of_file

\* the two hooks run again and again on a file of any contents
HookSpec == HookInit /\ [][HookNext]_vars

\* the latest hook run
Ran(name) == hook # None /\ hook.name = name

\* C26: a trailing_whitespace run on the file a trailing_whitespace run has
\* left writes nothing and returns 0.
TrailingWhitespaceIdempotent ==
    [][(Ran("trailing_whitespace") /\ hook'.name = "trailing_whitespace") =>
          /\ file_contents' = file_contents
          /\ hook'.retval = 0]_vars

\* C27: the file end_of_file leaves is empty or ends with one newline and
\* not with two, and an end_of_file run on the file an end_of_file run has
\* left writes nothing and returns 0.
EndOfFileOneNewline ==
    [][hook'.name = "end_of_file" =>
          /\ \/ file_contents' = <<>>
             \/ /\ endswith(file_contents', <<"\n">>)
                /\ ~endswith(file_contents', <<"\n", "\n">>)
          /\ Ran("end_of_file") =>
                /\ file_contents' = file_contents
                /\ hook'.retval = 0]_vars

\* C27's case: end_of_file has run on a file of a letter and three newlines,
\* has left the letter and one newline and returned 1
EndOfFileWitness ==
    /\ Ran("end_of_file")
    /\ hook.original_contents = <<"a", "\n", "\n", "\n">>
    /\ file_contents = <<"a", "\n">>
    /\ hook.retval = 1

----------------------------------------------------------------------------
(* ci_log_summary.py: summarize_logs *)

\* the largest --limit tried
MaxLimit == 3

\* the file names a log directory may hold, in ascending text order, a name
\* written as the pieces the glob pattern tells apart
LogNameOrder ==
    << <<"build", ".log">>, <<"ci_", "1", ".log">>, <<"ci_", "10", ".log">>,
       <<"ci_", "2", ".log">>, <<"ci_", "2", ".txt">> >>

\* str.upper() of the words of the logs
upper(word) == IF word = "error" THEN "ERROR" ELSE IF word = "boom" THEN "BOOM"
               ELSE word

\* DEFAULT_PATTERNS, compiled with re.IGNORECASE
DEFAULT_PATTERNS == {"ERROR", "FAILED", "TRACEBACK"}

\* any(p.search(line) for p in patterns), a pattern being found where a word
\* of the line is the pattern in some case
matches_error(line) ==
    \E i \in DOMAIN line : upper(line[i]) \in DEFAULT_PATTERNS

\* extract_error_lines(log_file)
extract_error_lines(lines) == SelectSeq(lines, matches_error)

\* sorted(directory.glob("ci_*.log")), as names
sorted_logs(dir) ==
    SelectSeq(LogNameOrder,
              LAMBDA name : name \in DOMAIN dir
                            /\ fnmatch(name, <<"ci_", "*", ".log">>))

\* seq[start:], as Python slices: a negative start counts from the end, and
\* a start beyond either end is the end
slice_from(seq, start) ==
    LET n == Len(seq)
        s == IF start < 0 THEN (IF n + start < 0 THEN 0 ELSE n + start)
             ELSE (IF start > n THEN n ELSE start)
    IN  SubSeq(seq, s + 1, n)

\* summarize_logs(directory, limit): the dict of each log's error lines
summarize_logs ==
    /\ \E limit \in 0..MaxLimit :
          LET chosen == slice_from(sorted_logs(directory), 0 - limit)
          IN  summaries' =
                 [limit |-> limit,
                  value |-> [name \in {chosen[i] : i \in DOMAIN chosen} |->
                                extract_error_lines(directory[name])]]
    /\ UNCHANGED <<directory, runner, hooks, auto_merge, optimizer>>

\* the caller has printed the summary
summary_printed ==
    /\ summaries # None
    /\ summaries' = None
    /\ UNCHANGED <<directory, runner, hooks, auto_merge, optimizer>>

LogInit ==
    /\ OptimizerIdle
    /\ RunnerIdle /\ HooksIdle /\ AutoMergeIdle
    /\ \E names \in SUBSET {LogNameOrder[i] : i \in DOMAIN LogNameOrder} :
          directory \in
             [names -> { <<>>, << <<"ALL", "GOOD">> >>,
                         << <<"FAIL">>, <<"error", "boom">> >> }]
    /\ summaries = None

LogNext ==
    \/ summarize_logs
    \/ summary_printed

\* the logs of any directory summarized with any limit
LogSpec == LogInit /\ [][LogNext]_vars

\* a name's place in the ascending order of names
LogRank(name) == CHOOSE i \in DOMAIN LogNameOrder : LogNameOrder[i] = name

\* the files of the directory named ci_*.log
CiLogs ==
    {name \in DOMAIN directory :
        name[1] = "ci_" /\ name[Len(name)] = ".log" /\ Len(name) > 1}

\* the summary holds the given number of entries, or one for every ci log
\* when there are fewer, and they are of the ci logs that sort last
SummaryOfLast(limit) ==
    LET keys == DOMAIN summaries.value
    IN  /\ keys \subseteq CiLogs
        /\ Cardinality(keys) =
              IF Cardinality(CiLogs) < limit THEN Cardinality(CiLogs) ELSE limit
        /\ \A k \in keys : \A other \in CiLogs \ keys : LogRank(other) < LogRank(k)

\* C29: the summary of a call with limit >= 0 has entries for the limit ci
\* logs that sort last, for all of them when there are fewer, and so for
\* none when limit is 0.
SummaryHasLastLogs ==
    summaries # None =>
        /\ SummaryOfLast(summaries.limit)
        /\ summaries.limit = 0 => summaries.value = EmptyDict

----------------------------------------------------------------------------
(* evaluate_auto_merge.py: main *)

\* what gh pr view can answer; reviewDecision is "" where there is none, and
\* a branch name is written as the pieces that the prefixes tell apart
PullRequests ==
    [author : {"dependabot[bot]", "alice"},
     baseRefName : {"main", "develop", "release"},
     headRefName : { <<"cursor/", "fix">>, <<"codex/", "fix">>,
                     <<"feature/", "cursor/", "fix">>, <<"fix">> },
     labels : SUBSET {"auto-merge", "bug"},
     mergeable : {"MERGEABLE", "CONFLICTING", "UNKNOWN"},
     reviewDecision : {"APPROVED", "CHANGES_REQUESTED", ""}]

\* a test for the prefix anywhere in the name: prefix in head_branch
contains(branch, prefix) == \E i \in DOMAIN branch : branch[i] = prefix

\* head_branch.startswith(prefix)
startswith(branch, prefix) == branch # <<>> /\ branch[1] = prefix

\* review_decision = details.get("reviewDecision") or "NONE"
review_decision(pr) ==
    IF pr.reviewDecision = "" THEN "NONE" ELSE pr.reviewDecision

\* should_auto_merge, as the branches of main set it
should_auto_merge(pr) ==
    IF pr.baseRefName \notin {"main", "develop"} THEN FALSE
    ELSE IF \/ pr.author = "dependabot[bot]"
            \/ startswith(pr.headRefName, "cursor/")
            \/ startswith(pr.headRefName, "codex/")
            \/ "auto-merge" \in pr.labels
         THEN IF pr.mergeable # "MERGEABLE" THEN FALSE
              ELSE IF pr.baseRefName = "main" /\ review_decision(pr) # "APPROVED"
                   THEN FALSE
              ELSE TRUE
    ELSE FALSE

\* reason, as the branches of main set it
reason(pr) ==
    IF pr.baseRefName \notin {"main", "develop"} THEN <<"Auto-merge only enabled for main/develop branches (targeting: ",
           pr.baseRefName, ")">>
    ELSE IF \/ pr.author = "dependabot[bot]"
            \/ startswith(pr.headRefName, "cursor/")
            \/ startswith(pr.headRefName, "codex/")
            \/ "auto-merge" \in pr.labels
         THEN IF pr.mergeable # "MERGEABLE" THEN <<"PR is not mergeable (state: ", pr.mergeable, ")">>
              ELSE IF pr.baseRefName = "main" /\ review_decision(pr) # "APPROVED"
                   THEN <<"Main branch requires review approval (current: ",
                          review_decision(pr), ")">>
              ELSE <<"PR meets auto-merge criteria">>
    ELSE <<"PR not eligible: not from dependabot/AI agents and no auto-merge label">>

\* str(should_auto_merge).lower()
lower_str(flag) == IF flag THEN "true" ELSE "false"

\* main when get_pr_info finds no pull request
evaluate_no_pr ==
    /\ details' = None
    /\ github_output' = << <<"reason", "No PR found for this event">>,
                           <<"should-auto-merge", "false">> >>
    /\ returncode' = 0
    /\ UNCHANGED <<runner, hooks, logs, optimizer>>

\* the pr-number line and, when there is a node id, the pr-node-id line
pr_lines(with_node_id) ==
    IF with_node_id THEN << <<"pr-number", "7">>, <<"pr-node-id", "PR_7">> >>
    ELSE << <<"pr-number", "7">> >>

\* main when gh pr view fails
evaluate_fetch_failed ==
    /\ details' = None
    /\ \E with_node_id \in BOOLEAN :
          github_output' =
             pr_lines(with_node_id)
             \o << <<"reason", "Failed to fetch PR details">>,
                   <<"should-auto-merge", "false">> >>
    /\ returncode' = 1
    /\ UNCHANGED <<runner, hooks, logs, optimizer>>

\* main when gh pr view answers
evaluate_pr ==
    /\ \E pr \in PullRequests : \E with_node_id \in BOOLEAN :
          /\ details' = pr
          /\ github_output' =
                pr_lines(with_node_id)
                \o << <<"should-auto-merge", lower_str(should_auto_merge(pr))>>,
                      <<"reason", reason(pr)>>,
                      <<"merge-method",
                        IF pr.baseRefName = "main" THEN "SQUASH" ELSE "MERGE">> >>
    /\ returncode' = 0
    /\ UNCHANGED <<runner, hooks, logs, optimizer>>

AutoMergeNext ==
    \/ evaluate_no_pr
    \/ evaluate_fetch_failed
    \/ evaluate_pr

\* the evaluation run on one event after another, each with its own
\* $GITHUB_OUTPUT
AutoMergeSpec == AllIdle /\ [][AutoMergeNext]_vars

\* the values written under a key
Written(key) ==
    {github_output[i][2] : i \in {j \in DOMAIN github_output :
                                     github_output[j][1] = key}}

\* the conditions for an automatic merge
Eligible(pr) ==
    /\ pr.baseRefName \in {"main", "develop"}
    /\ \/ pr.author = "dependabot[bot]"
       \/ pr.headRefName[1] \in {"cursor/", "codex/"}
       \/ "auto-merge" \in pr.labels
    /\ pr.mergeable = "MERGEABLE"
    /\ pr.baseRefName = "main" => pr.reviewDecision = "APPROVED"

\* C30: a run that has written anything has written one decision, true or
\* false, and true only for a pull request whose details were fetched and
\* meet the conditions.
AutoMergeOnlyWhenEligible ==
    github_output # <<>> =>
        /\ Cardinality({i \in DOMAIN github_output :
                           github_output[i][1] = "should-auto-merge"}) = 1
        /\ Written("should-auto-merge") \subseteq {"true", "false"}
        /\ "true" \in Written("should-auto-merge") =>
              /\ details # None
              /\ Eligible(details)
        /\ (details = None \/ ~Eligible(details)) =>
              Written("should-auto-merge") = {"false"}

\* C30's case: true was written for an approved pull request into main from
\* a cursor/ branch by somebody who is not dependabot, without a label
AutoMergeWitness ==
    /\ details # None
    /\ details.baseRefName = "main"
    /\ details.author = "alice"
    /\ details.headRefName = <<"cursor/", "fix">>
    /\ details.labels = {}
    /\ details.reviewDecision = "APPROVED"
    /\ Written("should-auto-merge") = {"true"}

============================================================================
